---- MODULE Spec2Model ----
(***************************************************************************)
(* The fake-news backend (src/src/index.js): an Express application with   *)
(* three routes over a Gemini text model and a MongoDB collection.         *)
(*                                                                         *)
(*   POST   /api/analyze      validate input, analyzeText, save, respond   *)
(*   GET    /api/history      the ten newest stored analyses               *)
(*   DELETE /api/history/:id  remove one stored analysis                   *)
(*                                                                         *)
(* Strings are sequences of one-character strings, so that trim(),         *)
(* length and startsWith() are computed as JavaScript computes them.       *)
(* JavaScript values that may have any type (request fields, the fields of *)
(* a parsed model reply) are tagged records of one shape.                  *)
(***************************************************************************)
EXTENDS Integers, Sequences, FiniteSets

----------------------------------------------------------------------------
(* Program constants.                                                      *)

\* content.length < 50 (index.js:171)
MinContentLength == 50

\* .limit(10) (index.js:215)
HistoryLimit == 10

----------------------------------------------------------------------------
(* Bounds of the model.                                                    *)

\* Date.now() runs from 0 to MaxClock.
MaxClock == 1

\* POST /api/analyze requests in a behaviour of Spec.
MaxRequests == 2

\* POST /api/analyze requests in a behaviour of SpecHistory: with the three
\* documents of Legacy, enough to fill the collection beyond HistoryLimit.
HistRequests == 8

----------------------------------------------------------------------------
(* String literals of the source.                                          *)

\* "Error:" (the literal tested by startsWith, index.js:180)
ErrorPrefix ==
    << "E", "r", "r", "o", "r", ":" >>

\* "Error: Content analysis failed" (index.js:154)
DegradedFeature ==
    << "E", "r", "r", "o", "r", ":", " ", "C", "o", "n", "t", "e", "n", "t",
       " ", "a", "n", "a", "l", "y", "s", "i", "s", " ", "f", "a", "i", "l",
       "e", "d" >>

\* "The analysis service is currently experiencing issues. Please wait a moment and try again." (index.js:155)
DegradedExplanation ==
    << "T", "h", "e", " ", "a", "n", "a", "l", "y", "s", "i", "s", " ", "s",
       "e", "r", "v", "i", "c", "e", " ", "i", "s", " ", "c", "u", "r", "r",
       "e", "n", "t", "l", "y", " ", "e", "x", "p", "e", "r", "i", "e", "n",
       "c", "i", "n", "g", " ", "i", "s", "s", "u", "e", "s", ".", " ", "P",
       "l", "e", "a", "s", "e", " ", "w", "a", "i", "t", " ", "a", " ", "m",
       "o", "m", "e", "n", "t", " ", "a", "n", "d", " ", "t", "r", "y", " ",
       "a", "g", "a", "i", "n", "." >>

\* "Analysis failed. Please try again." (index.js:182)
AnalysisFailedMsg ==
    << "A", "n", "a", "l", "y", "s", "i", "s", " ", "f", "a", "i", "l", "e",
       "d", ".", " ", "P", "l", "e", "a", "s", "e", " ", "t", "r", "y", " ",
       "a", "g", "a", "i", "n", "." >>

\* "Both title and content are required and cannot be empty" (index.js:167)
RequiredMsg ==
    << "B", "o", "t", "h", " ", "t", "i", "t", "l", "e", " ", "a", "n", "d",
       " ", "c", "o", "n", "t", "e", "n", "t", " ", "a", "r", "e", " ", "r",
       "e", "q", "u", "i", "r", "e", "d", " ", "a", "n", "d", " ", "c", "a",
       "n", "n", "o", "t", " ", "b", "e", " ", "e", "m", "p", "t", "y" >>

\* "Content is too short. Please provide more text for accurate analysis." (index.js:173)
TooShortMsg ==
    << "C", "o", "n", "t", "e", "n", "t", " ", "i", "s", " ", "t", "o", "o",
       " ", "s", "h", "o", "r", "t", ".", " ", "P", "l", "e", "a", "s", "e",
       " ", "p", "r", "o", "v", "i", "d", "e", " ", "m", "o", "r", "e", " ",
       "t", "e", "x", "t", " ", "f", "o", "r", " ", "a", "c", "c", "u", "r",
       "a", "t", "e", " ", "a", "n", "a", "l", "y", "s", "i", "s", "." >>

\* "Server error. Please try again later." (index.js:206)
ServerErrorMsg ==
    << "S", "e", "r", "v", "e", "r", " ", "e", "r", "r", "o", "r", ".", " ",
       "P", "l", "e", "a", "s", "e", " ", "t", "r", "y", " ", "a", "g", "a",
       "i", "n", " ", "l", "a", "t", "e", "r", "." >>

\* "Item not found" (index.js:229)
NotFoundMsg ==
    << "I", "t", "e", "m", " ", "n", "o", "t", " ", "f", "o", "u", "n", "d" >>

\* "Item deleted successfully" (index.js:232)
DeletedMsg ==
    << "I", "t", "e", "m", " ", "d", "e", "l", "e", "t", "e", "d", " ", "s",
       "u", "c", "c", "e", "s", "s", "f", "u", "l", "l", "y" >>

\* "Failed to delete item" (index.js:236)
DeleteFailedMsg ==
    << "F", "a", "i", "l", "e", "d", " ", "t", "o", " ", "d", "e", "l", "e",
       "t", "e", " ", "i", "t", "e", "m" >>

----------------------------------------------------------------------------
(* JavaScript strings.                                                     *)

\* The characters String.prototype.trim removes.
IsSpace(c) == c \in {" ", "\t", "\n"}

RECURSIVE TrimLeft(_)
TrimLeft(s) ==
    IF s = <<>> THEN <<>>
    ELSE IF IsSpace(Head(s)) THEN TrimLeft(Tail(s)) ELSE s

RECURSIVE TrimRight(_)
TrimRight(s) ==
    IF s = <<>> THEN <<>>
    ELSE IF IsSpace(s[Len(s)]) THEN TrimRight(SubSeq(s, 1, Len(s) - 1)) ELSE s

\* String.prototype.trim
Trim(s) == TrimRight(TrimLeft(s))

\* String.prototype.startsWith
StartsWith(s, prefix) ==
    /\ Len(s) >= Len(prefix)
    /\ SubSeq(s, 1, Len(prefix)) = prefix

\* A string of n copies of the character c.
Rep(n, c) == [i \in 1..n |-> c]

----------------------------------------------------------------------------
(* JavaScript values of any type: t is the tag, and the field that belongs *)
(* to the tag holds the value (b boolean, n a number in tenths, s a string,*)
(* a the elements of an array); the other fields hold a filler.            *)

JUndef   == [t |-> "undefined", b |-> FALSE, n |-> 0, s |-> <<>>, a |-> <<>>]
JNull    == [t |-> "null",      b |-> FALSE, n |-> 0, s |-> <<>>, a |-> <<>>]
JBool(x) == [t |-> "bool",      b |-> x,     n |-> 0, s |-> <<>>, a |-> <<>>]
\* A number, held in tenths: JNum(855) is 85.5
JNum(x)  == [t |-> "num",       b |-> FALSE, n |-> x, s |-> <<>>, a |-> <<>>]
JStr(x)  == [t |-> "str",       b |-> FALSE, n |-> 0, s |-> x,    a |-> <<>>]
JArr(x)  == [t |-> "arr",       b |-> FALSE, n |-> 0, s |-> <<>>, a |-> x]

\* typeof v
TypeOf(v) ==
    CASE v.t = "undefined" -> "undefined"
      [] v.t = "bool"      -> "boolean"
      [] v.t = "num"       -> "number"
      [] v.t = "str"       -> "string"
      [] OTHER             -> "object"

\* Array.isArray(v)
IsArray(v) == v.t = "arr"

\* Math.round of a number held in tenths, for the range the caller lets
\* through (0..100): halves round up.
MathRound(tenths) == (tenths + 5) \div 10

----------------------------------------------------------------------------
(* analyzeText (index.js:73-158).                                          *)
(*                                                                         *)
(* The model's answer is what generateContent does: it rejects ("reject"), *)
(* resolves without a response ("empty"), or resolves with a text. A text  *)
(* is a sequence of tokens: white space ("ws"), a word of prose ("word"),  *)
(* a lone "{" ("open"), a lone "}" ("close"), or a well-formed JSON object *)
(* ("obj", from its "{" to its "}") with the four fields the prompt asks   *)
(* for; a field the object does not have is JUndef.                        *)

Obj(i, c, f, e) == [isFake |-> i, confidence |-> c, features |-> f, explanation |-> e]
NoObj == Obj(JUndef, JUndef, JUndef, JUndef)

Ws       == [k |-> "ws",    o |-> NoObj]
Word     == [k |-> "word",  o |-> NoObj]
Open     == [k |-> "open",  o |-> NoObj]
Close    == [k |-> "close", o |-> NoObj]
ObjTok(x) == [k |-> "obj",  o |-> x]

Rejects     == [kind |-> "reject", text |-> <<>>]
NoResponse  == [kind |-> "empty",  text |-> <<>>]
Text(toks)  == [kind |-> "text",   text |-> toks]

\* rawText.trim() on a token sequence (index.js:110)
RECURSIVE TrimTokLeft(_)
TrimTokLeft(toks) ==
    IF toks = <<>> THEN <<>>
    ELSE IF Head(toks).k = "ws" THEN TrimTokLeft(Tail(toks)) ELSE toks

RECURSIVE TrimTokRight(_)
TrimTokRight(toks) ==
    IF toks = <<>> THEN <<>>
    ELSE IF toks[Len(toks)].k = "ws"
         THEN TrimTokRight(SubSeq(toks, 1, Len(toks) - 1)) ELSE toks

TrimText(toks) == TrimTokRight(TrimTokLeft(toks))

HasOpen(tok)  == tok.k \in {"open", "obj"}
HasClose(tok) == tok.k \in {"close", "obj"}

\* rawText.match(/{[\s\S]*}/) (index.js:114): from the first "{" that has a
\* "}" after it to the last "}" of the text; <<>> stands for no match (a
\* match is never empty).
RegexMatch(toks) ==
    LET closes == {j \in 1..Len(toks) : HasClose(toks[j])}
        starts == {i \in 1..Len(toks) :
                     /\ HasOpen(toks[i])
                     /\ \E j \in closes : j > i \/ (j = i /\ toks[i].k = "obj")}
    IN  IF starts = {} THEN <<>>
        ELSE LET first == CHOOSE i \in starts : \A x \in starts : i <= x
                 last  == CHOOSE j \in closes : \A x \in closes : j >= x
             IN  SubSeq(toks, first, last)

\* JSON.parse of the matched text (index.js:121): the text starts with "{"
\* and ends with "}", so it parses exactly when it is one well-formed object.
JsonParses(cand) == Len(cand) = 1 /\ cand[1].k = "obj"

\* What a run of code ends in: a value returned or an error thrown.
Return(v)  == [threw |-> FALSE, error |-> "",  value |-> v]

\* The result analyzeText returns from its catch block (index.js:151-156).
Degraded ==
    [isFake      |-> FALSE,
     confidence  |-> 0,
     features    |-> << DegradedFeature >>,
     explanation |-> DegradedExplanation]

Throw(msg) == [threw |-> TRUE,  error |-> msg, value |-> Degraded]

\* The four checks of index.js:124-137, in their order: the message of the
\* first one that throws, "" when none does.
ValidateLowConfidence(x) ==
    IF TypeOf(x.isFake) # "boolean" THEN "Invalid analysis result"
    ELSE IF TypeOf(x.confidence) # "number" \/ x.confidence.n < 0
         THEN "Invalid confidence score"
    ELSE IF ~IsArray(x.features) \/ Len(x.features.a) = 0
         THEN "No analysis features found"
    ELSE IF TypeOf(x.explanation) # "string" \/ Trim(x.explanation.s) = <<>>
         THEN "No explanation provided"
    ELSE ""

Validate(x) ==
    IF TypeOf(x.isFake) # "boolean" THEN "Invalid analysis result"
    ELSE IF \/ TypeOf(x.confidence) # "number"
            \/ x.confidence.n < 0
            \/ x.confidence.n > 1000
         THEN "Invalid confidence score"
    ELSE IF ~IsArray(x.features) \/ Len(x.features.a) = 0
         THEN "No analysis features found"
    ELSE IF TypeOf(x.explanation) # "string" \/ Trim(x.explanation.s) = <<>>
         THEN "No explanation provided"
    ELSE ""

\* analysis.features.map(f => f.trim()).filter(f => f) (index.js:143), for
\* elements that are all strings.
RECURSIVE TrimAndFilter(_)
TrimAndFilter(fs) ==
    IF fs = <<>> THEN <<>>
    ELSE LET f == Trim(Head(fs).s)
         IN  IF f = <<>> THEN TrimAndFilter(Tail(fs))
             ELSE << f >> \o TrimAndFilter(Tail(fs))

\* The object of index.js:140-145. f.trim() throws a TypeError on an
\* element that is not a string.
Normalize(x) ==
    IF \E i \in 1..Len(x.features.a) : x.features.a[i].t # "str"
    THEN Throw("f.trim is not a function")
    ELSE Return([isFake      |-> x.isFake.b,
                 confidence  |-> MathRound(x.confidence.n),
                 features    |-> TrimAndFilter(x.features.a),
                 explanation |-> Trim(x.explanation.s)])

\* The try block of analyzeText from the model's answer on (index.js:103-145).
AnalyzeBody(answer) ==
    IF answer.kind = "reject" THEN Throw("generateContent rejected")
    ELSE IF answer.kind = "empty"
         THEN Throw("No response received from AI service")
    ELSE LET rawText == TrimText(answer.text)
             match   == RegexMatch(rawText)
         IN  IF match = <<>> THEN Throw("Could not parse AI response")
             ELSE IF ~JsonParses(match) THEN Throw("JSON.parse SyntaxError")
             ELSE LET analysis == match[1].o
                  IN  IF Validate(analysis) # "" THEN Throw(Validate(analysis))
                      ELSE Normalize(analysis)

\* analyzeText without its catch block: what is thrown in the try block
\* escapes to the caller.
AnalyzeTextNoCatch(answer) == AnalyzeBody(answer)

\* analyzeText: whatever the try block throws is caught and the degraded
\* result returned (index.js:147-157).
AnalyzeText(answer) ==
    IF AnalyzeBody(answer).threw THEN Return(Degraded) ELSE AnalyzeBody(answer)

----------------------------------------------------------------------------
(* HTTP responses: status and JSON body. kind names the body's shape:      *)
(* "error" {error, details?}, "analysis" the four fields of an analysis,   *)
(* "list" an array of stored records, "success" {success: true, message}.  *)

NoAnalysis ==
    [isFake |-> FALSE, confidence |-> 0, features |-> <<>>, explanation |-> <<>>]

NoResp ==
    [status |-> 0, kind |-> "none", error |-> <<>>, details |-> "",
     body |-> NoAnalysis, list |-> <<>>]

ErrorResp(code, msg, det) ==
    [status |-> code, kind |-> "error", error |-> msg, details |-> det,
     body |-> NoAnalysis, list |-> <<>>]

\* res.json(analysis) (index.js:202): status 200
AnalysisResp(a) ==
    [status |-> 200, kind |-> "analysis", error |-> <<>>, details |-> "",
     body |-> a, list |-> <<>>]

\* res.json(history) (index.js:216, 218): status 200
ListResp(l) ==
    [status |-> 200, kind |-> "list", error |-> <<>>, details |-> "",
     body |-> NoAnalysis, list |-> l]

\* res.json({ success: true, message }) (index.js:232): status 200
SuccessResp(msg) ==
    [status |-> 200, kind |-> "success", error |-> msg, details |-> "",
     body |-> NoAnalysis, list |-> <<>>]

----------------------------------------------------------------------------
(* POST /api/analyze: the input checks (index.js:163-175).                 *)

Nullish(v) == v.t \in {"undefined", "null"}

\* What index.js:165-175 ends in for a body {title, content}:
\*   "throwTitle", "throwContent"  v?.trim is not a function (v is neither
\*                                 nullish nor a string): a TypeError
\*   "required"                    400 at index.js:166
\*   "tooShort"                    400 at index.js:172
\*   "ok"                          analyzeText is called
InputCheck(title, content) ==
    IF ~Nullish(title) /\ title.t # "str" THEN "throwTitle"
    ELSE IF Nullish(title) \/ Trim(title.s) = <<>> THEN "required"
    ELSE IF ~Nullish(content) /\ content.t # "str" THEN "throwContent"
    ELSE IF Nullish(content) \/ Trim(content.s) = <<>> THEN "required"
    ELSE IF Len(content.s) < MinContentLength THEN "tooShort"
    ELSE "ok"

\* analysis.features?.[0]?.startsWith('Error:') (index.js:180)
NeverSentinel(a) == FALSE

IsSentinel(a) ==
    /\ Len(a.features) >= 1
    /\ StartsWith(a.features[1], ErrorPrefix)

\* The body of the 500 at index.js:181-183.
SentinelResp(a) ==
    ErrorResp(500, IF a.explanation # <<>> THEN a.explanation
                   ELSE AnalysisFailedMsg, "")

\* new News({...}) (index.js:188-195) under newsSchema (index.js:60-68): the
\* document gets a fresh _id and createdAt = Date.now().
NewNewsSharedId(id, now, title, content, a) ==
    [id |-> 1, createdAt |-> now, title |-> title, content |-> content,
     isFake |-> a.isFake, confidence |-> a.confidence,
     features |-> a.features, explanation |-> a.explanation]

NewNews(id, now, title, content, a) ==
    [id |-> id, createdAt |-> now, title |-> title, content |-> content,
     isFake |-> a.isFake, confidence |-> a.confidence,
     features |-> a.features, explanation |-> a.explanation]

\* The response after the save (index.js:197-202): a failed save is caught
\* and logged, and the analysis is sent either way.
SaveResponseFailing(a, ok) ==
    IF ok THEN AnalysisResp(a) ELSE ErrorResp(500, ServerErrorMsg, "save failed")

SaveResponse(a, ok) == AnalysisResp(a)

----------------------------------------------------------------------------
(* The store: the News collection, a set of documents.                     *)

\* x comes before y in find().sort({createdAt: -1}): newer first. MongoDB
\* leaves the order of documents with equal createdAt open; tieAsc picks
\* one of two orders for them (by _id ascending or descending).
Before(x, y, tieAsc) ==
    \/ x.createdAt > y.createdAt
    \/ /\ x.createdAt = y.createdAt
       /\ IF tieAsc THEN x.id <= y.id ELSE x.id >= y.id

RECURSIVE Sorted(_, _)
Sorted(S, tieAsc) ==
    IF S = {} THEN <<>>
    ELSE LET m == CHOOSE x \in S : \A y \in S : Before(x, y, tieAsc)
         IN  << m >> \o Sorted(S \ {m}, tieAsc)

\* The same query without its sort: documents in _id order.
RECURSIVE ById(_)
ById(S) ==
    IF S = {} THEN <<>>
    ELSE LET m == CHOOSE x \in S : \A y \in S : x.id <= y.id
         IN  << m >> \o ById(S \ {m})

Limit(l, n) == IF Len(l) <= n THEN l ELSE SubSeq(l, 1, n)

FindUnsorted(S, tieAsc) == Limit(ById(S), HistoryLimit)

\* News.find().sort({ createdAt: -1 }).limit(10) (index.js:215)
FindSortLimit(S, tieAsc) == Limit(Sorted(S, tieAsc), HistoryLimit)

\* News.findByIdAndDelete(id) (index.js:226): the documents it matches (at
\* most one, _id being unique); it removes what it matches.
MatchById(S, id) == {r \in S : r.id = id}

\* A delete that matches but removes every document.
RemoveAll(S, id) == IF MatchById(S, id) = {} THEN S ELSE {}

RemoveById(S, id) == S \ MatchById(S, id)

----------------------------------------------------------------------------
(* State.                                                                  *)

\* The requests to POST /api/analyze that can be in flight together.
Procs == {1, 2}

VARIABLES
    store,        \* the News collection: a set of documents
    nextId,       \* the next _id the driver hands out
    clock,        \* Date.now()
    requests,     \* POST /api/analyze requests received so far
    pc,           \* per request: "idle", "calling" (awaiting generateContent,
                  \* index.js:103), "saving" (awaiting save, index.js:196), "done"
    req,          \* per request: req.body's title and content
    answer,       \* per request: what generateContent ended in
    analysis,     \* per request: what analyzeText returned (index.js:177)
    newsEntry,    \* per request: the document built at index.js:188
    resp,         \* per request: the response sent
    modelCalled,  \* per request: generateContent was called
    saved,        \* per request: "none", "ok" or "failed": how save() ended
    other,        \* the last response of GET /api/history or DELETE
    deleted       \* the _ids DELETE has removed

vars == << store, nextId, clock, requests, pc, req, answer, analysis,
           newsEntry, resp, modelCalled, saved, other, deleted >>

NoReq   == [title |-> JUndef, content |-> JUndef]
NoEntry == NewNews(0, 0, <<>>, <<>>, NoAnalysis)

InitRequests ==
    /\ requests = 0
    /\ pc = [p \in Procs |-> "idle"]
    /\ req = [p \in Procs |-> NoReq]
    /\ answer = [p \in Procs |-> NoResponse]
    /\ analysis = [p \in Procs |-> NoAnalysis]
    /\ newsEntry = [p \in Procs |-> NoEntry]
    /\ resp = [p \in Procs |-> NoResp]
    /\ modelCalled = [p \in Procs |-> FALSE]
    /\ saved = [p \in Procs |-> "none"]
    /\ other = NoResp
    /\ deleted = {}

\* The server starts (index.js:243-246) on an empty collection.
Init ==
    /\ store = {}
    /\ nextId = 1
    /\ clock = 0
    /\ InitRequests

----------------------------------------------------------------------------
(* POST /api/analyze (index.js:161-210).                                   *)

\* The handler from its start to its first await: the input checks, then
\* analyzeText up to generateContent (index.js:163-177, 74-103).
Receive(p, title, content) ==
    /\ pc[p] = "idle"
    /\ requests' = requests + 1
    /\ req' = [req EXCEPT ![p] = [title |-> title, content |-> content]]
    /\ LET check == InputCheck(title, content)
       IN  CASE check = "ok" ->
                  /\ pc' = [pc EXCEPT ![p] = "calling"]
                  /\ modelCalled' = [modelCalled EXCEPT ![p] = TRUE]
                  /\ resp' = [resp EXCEPT ![p] = NoResp]
             [] check = "required" ->
                  /\ pc' = [pc EXCEPT ![p] = "done"]
                  /\ resp' = [resp EXCEPT ![p] = ErrorResp(400, RequiredMsg, "")]
                  /\ UNCHANGED modelCalled
             [] check = "tooShort" ->
                  /\ pc' = [pc EXCEPT ![p] = "done"]
                  /\ resp' = [resp EXCEPT ![p] = ErrorResp(400, TooShortMsg, "")]
                  /\ UNCHANGED modelCalled
             [] check = "throwTitle" ->
                  \* the TypeError reaches the catch of index.js:203-209
                  /\ pc' = [pc EXCEPT ![p] = "done"]
                  /\ resp' = [resp EXCEPT ![p] =
                        ErrorResp(500, ServerErrorMsg, "title?.trim is not a function")]
                  /\ UNCHANGED modelCalled
             [] check = "throwContent" ->
                  /\ pc' = [pc EXCEPT ![p] = "done"]
                  /\ resp' = [resp EXCEPT ![p] =
                        ErrorResp(500, ServerErrorMsg, "content?.trim is not a function")]
                  /\ UNCHANGED modelCalled
    /\ UNCHANGED << store, nextId, clock, answer, analysis, newsEntry, saved,
                    other, deleted >>

\* generateContent settles; the handler runs to its next await or to its
\* response: the rest of analyzeText, the sentinel test, new News and the
\* call of save (index.js:103-157, 177-196).
ModelReturn(p, ans) ==
    /\ pc[p] = "calling"
    /\ answer' = [answer EXCEPT ![p] = ans]
    /\ LET r == AnalyzeText(ans)
       IN  IF r.threw
           THEN \* an error escaping analyzeText reaches index.js:203-209
                /\ pc' = [pc EXCEPT ![p] = "done"]
                /\ resp' = [resp EXCEPT ![p] = ErrorResp(500, ServerErrorMsg, r.error)]
                /\ UNCHANGED << analysis, newsEntry, nextId >>
           ELSE /\ analysis' = [analysis EXCEPT ![p] = r.value]
                /\ IF IsSentinel(r.value)
                   THEN /\ pc' = [pc EXCEPT ![p] = "done"]
                        /\ resp' = [resp EXCEPT ![p] = SentinelResp(r.value)]
                        /\ UNCHANGED << newsEntry, nextId >>
                   ELSE /\ pc' = [pc EXCEPT ![p] = "saving"]
                        /\ newsEntry' = [newsEntry EXCEPT ![p] =
                              NewNews(nextId, clock, req[p].title.s,
                                      req[p].content.s, r.value)]
                        /\ nextId' = nextId + 1
                        /\ UNCHANGED resp
    /\ UNCHANGED << store, clock, requests, req, modelCalled, saved, other,
                    deleted >>

\* save() settles (ok: the document is in the collection; not ok: it threw
\* and nothing was written); the handler responds (index.js:196-202).
SaveReturn(p, ok) ==
    /\ pc[p] = "saving"
    /\ store' = IF ok THEN store \cup {newsEntry[p]} ELSE store
    /\ saved' = [saved EXCEPT ![p] = IF ok THEN "ok" ELSE "failed"]
    /\ resp' = [resp EXCEPT ![p] = SaveResponse(analysis[p], ok)]
    /\ pc' = [pc EXCEPT ![p] = "done"]
    /\ UNCHANGED << nextId, clock, requests, req, answer, analysis, newsEntry,
                    modelCalled, other, deleted >>

\* The response is delivered and the handler's locals are gone.
Complete(p) ==
    /\ pc[p] = "done"
    /\ pc' = [pc EXCEPT ![p] = "idle"]
    /\ req' = [req EXCEPT ![p] = NoReq]
    /\ answer' = [answer EXCEPT ![p] = NoResponse]
    /\ analysis' = [analysis EXCEPT ![p] = NoAnalysis]
    /\ newsEntry' = [newsEntry EXCEPT ![p] = NoEntry]
    /\ resp' = [resp EXCEPT ![p] = NoResp]
    /\ modelCalled' = [modelCalled EXCEPT ![p] = FALSE]
    /\ saved' = [saved EXCEPT ![p] = "none"]
    /\ UNCHANGED << store, nextId, clock, requests, other, deleted >>

----------------------------------------------------------------------------
(* GET /api/history (index.js:213-220) and DELETE /api/history/:id         *)
(* (index.js:223-240). Each has one await, the store call; ok tells        *)
(* whether the call resolved or threw (the store cannot be reached, or,    *)
(* for DELETE, the id is not one the driver can cast to an _id).           *)

History(ok, tieAsc) ==
    /\ other' = IF ok THEN ListResp(FindSortLimit(store, tieAsc))
                ELSE ListResp(<<>>)
    /\ UNCHANGED << store, nextId, clock, requests, pc, req, answer, analysis,
                    newsEntry, resp, modelCalled, saved, deleted >>

Delete(id, ok) ==
    /\ IF ~ok
       THEN /\ other' = ErrorResp(500, DeleteFailedMsg, "store error")
            /\ UNCHANGED << store, deleted >>
       ELSE IF MatchById(store, id) = {}
       THEN /\ other' = ErrorResp(404, NotFoundMsg, "")
            /\ UNCHANGED << store, deleted >>
       ELSE /\ other' = SuccessResp(DeletedMsg)
            /\ store' = RemoveById(store, id)
            /\ deleted' = deleted \cup {id}
    /\ UNCHANGED << nextId, clock, requests, pc, req, answer, analysis,
                    newsEntry, resp, modelCalled, saved >>

\* Time passes.
Tick ==
    /\ clock < MaxClock
    /\ clock' = clock + 1
    /\ UNCHANGED << store, nextId, requests, pc, req, answer, analysis,
                    newsEntry, resp, modelCalled, saved, other, deleted >>

----------------------------------------------------------------------------
(* The inputs the requests are drawn from.                                 *)

TitleText   == << "N", "e", "w", "s" >>
FillerA     == Rep(MinContentLength, "a")
FillerB     == Rep(MinContentLength + 10, "b")
FindingText == << "2", " ", "s", "o", "u", "r", "c", "e", "s" >>
OtherText   == << "d", "a", "t", "e", "d" >>
ErrorText   == ErrorPrefix \o << " ", "t", "y", "p", "o" >>
ClaimsText  == << "C", "l", "a", "i", "m", "s", " ", "O", "K" >>
Pad(s)      == << " " >> \o s \o << " ", "\n" >>

\* req.body.title: absent, null, empty, blank, a title, a padded title, a number
Titles ==
    { JUndef, JNull, JStr(<<>>), JStr(<< " ", " " >>), JStr(TitleText),
      JStr(Pad(TitleText)), JNum(50) }

\* req.body.content: absent, null, empty, blank (short and long), too short
\* by far and by one, just long enough, longer, long enough only with its
\* padding, a number, an array
Contents ==
    { JUndef, JNull, JStr(<<>>), JStr(<< " " >>),
      JStr(Rep(MinContentLength + 10, " ")),
      JStr(Rep(3, "a")), JStr(Rep(MinContentLength - 1, "a")),
      JStr(FillerA), JStr(FillerB),
      JStr(Pad(Rep(MinContentLength - 3, "a"))),
      JNum(1230), JArr(<<>>) }

IsFakeValues ==
    { JBool(TRUE), JBool(FALSE), JStr(<< "t", "r", "u", "e" >>), JNum(10),
      JNull, JUndef }

\* 0, 92, 100, 85.5, 99.5, 100.4, 101, -1, -0.1, "85", null, absent
ConfidenceValues ==
    { JNum(0), JNum(920), JNum(1000), JNum(855), JNum(995), JNum(1004),
      JNum(1010), JNum(-10), JNum(-1), JStr(<< "8", "5" >>), JNull, JUndef }

FeaturesValues ==
    { JArr(<< JStr(FindingText) >>),
      JArr(<< JStr(Pad(FindingText)), JStr(OtherText) >>),
      JArr(<< JStr(<<>>), JStr(FindingText) >>),
      JArr(<< JStr(<< " ", " " >>) >>),
      JArr(<< JStr(ErrorText) >>),
      JArr(<< JStr(Pad(ErrorText)) >>),
      JArr(<< JStr(FindingText), JStr(ErrorText) >>),
      JArr(<<>>),
      JArr(<< JNum(10) >>),
      JArr(<< JStr(FindingText), JNull >>),
      JStr(FindingText), JNull, JUndef }

ExplanationValues ==
    { JStr(ClaimsText), JStr(Pad(ClaimsText)), JStr(<<>>),
      JStr(<< " ", "\n" >>), JNum(10), JNull, JUndef }

Objects ==
    { Obj(i, c, f, e) : i \in IsFakeValues, c \in ConfidenceValues,
                        f \in FeaturesValues, e \in ExplanationValues }

GoodObject ==
    Obj(JBool(FALSE), JNum(920), JArr(<< JStr(FindingText) >>), JStr(ClaimsText))

OtherGoodObject ==
    Obj(JBool(TRUE), JNum(855), JArr(<< JStr(Pad(OtherText)) >>), JStr(Pad(ClaimsText)))

\* What generateContent can end in: a rejection, no response, a text
\* without braces, with braces in the wrong order or unclosed, with braces
\* around prose, an object inside prose, an object after braces in prose,
\* two objects, and every object of Objects alone.
Answers ==
    { Rejects, NoResponse,
      Text(<<>>), Text(<< Word, Ws, Word >>), Text(<< Close, Word, Open >>),
      Text(<< Open, Word >>), Text(<< Open, Word, Close >>),
      Text(<< Word, Ws, ObjTok(GoodObject), Ws, Word >>),
      Text(<< Open, Word, Close, Ws, ObjTok(GoodObject) >>),
      Text(<< ObjTok(GoodObject), Ws, ObjTok(OtherGoodObject) >>) }
    \cup { Text(<< Ws, ObjTok(x), Ws >>) : x \in Objects }

\* The inputs of the specifications with concurrent requests.
FewTitles   == { JStr(TitleText), JUndef }
FewContents == { JStr(FillerA), JStr(Rep(3, "a")) }
FewAnswers  == { Rejects, Text(<< ObjTok(GoodObject) >>),
                 Text(<< ObjTok(OtherGoodObject) >>) }

----------------------------------------------------------------------------
(* Specifications.                                                         *)

\* The whole application: concurrent POST /api/analyze requests with
\* GET /api/history and DELETE /api/history/:id between their steps.
Next ==
    \/ \E p \in Procs, t \in FewTitles, c \in FewContents :
          requests < MaxRequests /\ Receive(p, t, c)
    \/ \E p \in Procs, a \in FewAnswers : ModelReturn(p, a)
    \/ \E p \in Procs, ok \in BOOLEAN : SaveReturn(p, ok)
    \/ \E p \in Procs : Complete(p)
    \/ \E ok \in BOOLEAN, tieAsc \in BOOLEAN : History(ok, tieAsc)
    \/ \E id \in 1..MaxRequests + 1, ok \in BOOLEAN : Delete(id, ok)
    \/ Tick

Spec == Init /\ [][Next]_vars

\* One POST /api/analyze request, over every input and every answer of the
\* model.
NextPipeline ==
    \/ \E t \in Titles, c \in Contents : requests < 1 /\ Receive(1, t, c)
    \/ pc[1] = "calling" /\ \E a \in Answers : ModelReturn(1, a)
    \/ \E ok \in BOOLEAN : SaveReturn(1, ok)

SpecPipeline == Init /\ [][NextPipeline]_vars

\* Documents the collection holds when the server starts (the collection
\* outlives the process): createdAt need not follow _id.
Legacy ==
    { NewNews(101, 1, TitleText, FillerA, Normalize(GoodObject).value),
      NewNews(102, 0, TitleText, FillerA, Normalize(GoodObject).value),
      NewNews(103, 1, TitleText, FillerB, Normalize(OtherGoodObject).value) }

InitHistory ==
    /\ store = Legacy
    /\ nextId = 1
    /\ clock = 0
    /\ InitRequests

\* Requests one after another that fill the collection, with history and
\* delete requests between them.
NextHistory ==
    \/ requests < HistRequests /\ Receive(1, JStr(TitleText), JStr(FillerA))
    \/ ModelReturn(1, Text(<< ObjTok(GoodObject) >>))
    \/ SaveReturn(1, TRUE)
    \/ Complete(1)
    \/ \E ok \in BOOLEAN, tieAsc \in BOOLEAN : History(ok, tieAsc)
    \/ \E id \in {1, 102} : Delete(id, TRUE)
    \/ Tick

SpecHistory == InitHistory /\ [][NextHistory]_vars

----------------------------------------------------------------------------
(* Vocabulary of the properties.                                           *)

Answered(p) == pc[p] = "done"

\* title and content are strings, non-empty after trimming, and content has
\* at least MinContentLength characters.
ValidInput(r) ==
    /\ r.title.t = "str" /\ Trim(r.title.s) # <<>>
    /\ r.content.t = "str" /\ Trim(r.content.s) # <<>>
    /\ Len(r.content.s) >= MinContentLength

\* The invariants of an AnalysisResult.
ResultInvariants(a) ==
    /\ a.isFake \in BOOLEAN
    /\ a.confidence \in 0..100
    /\ Len(a.features) >= 1
    /\ \A i \in 1..Len(a.features) : a.features[i] # <<>>
    /\ a.explanation # <<>>

\* The 500 made from the degraded result.
DegradedResp == ErrorResp(500, DegradedExplanation, "")

\* The text is one JSON object and nothing else but white space.
IsObject(ans) ==
    /\ ans.kind = "text"
    /\ \E i \in 1..Len(ans.text) :
          /\ ans.text[i].k = "obj"
          /\ \A j \in 1..Len(ans.text) : j # i => ans.text[j].k = "ws"

ObjectOf(ans) ==
    (ans.text[CHOOSE i \in 1..Len(ans.text) : ans.text[i].k = "obj"]).o

\* Field values that are valid: isFake a boolean, confidence an integer in
\* 0..100, features a non-empty list of strings that are non-empty when
\* trimmed, explanation a string that is non-empty when trimmed.
ValidFields(x) ==
    /\ x.isFake.t = "bool"
    /\ x.confidence.t = "num"
    /\ x.confidence.n \in 0..1000 /\ x.confidence.n % 10 = 0
    /\ x.features.t = "arr" /\ Len(x.features.a) >= 1
    /\ \A i \in 1..Len(x.features.a) :
          x.features.a[i].t = "str" /\ Trim(x.features.a[i].s) # <<>>
    /\ x.explanation.t = "str" /\ Trim(x.explanation.s) # <<>>

\* The four fields of a valid object, trimmed.
TrimmedFields(x) ==
    [isFake      |-> x.isFake.b,
     confidence  |-> x.confidence.n \div 10,
     features    |-> [i \in 1..Len(x.features.a) |-> Trim(x.features.a[i].s)],
     explanation |-> Trim(x.explanation.s)]

\* A field value the validation has to reject.
BadFields(x) ==
    \/ x.isFake.t # "bool"
    \/ x.confidence.t # "num" \/ x.confidence.n < 0 \/ x.confidence.n > 1000
    \/ x.features.t # "arr" \/ x.features.a = <<>>
    \/ x.explanation.t # "str" \/ Trim(x.explanation.s) = <<>>

\* No "{" of the text has a "}" after it.
NoBraces(toks) ==
    ~ \E i \in 1..Len(toks), j \in 1..Len(toks) :
          /\ HasOpen(toks[i]) /\ HasClose(toks[j])
          /\ (i < j \/ (i = j /\ toks[i].k = "obj"))

\* sub occurs in s.
Contains(s, sub) ==
    \E i \in 1..(Len(s) - Len(sub) + 1) : SubSeq(s, i, i + Len(sub) - 1) = sub

\* The model call fails, or the reply has no "{"..."}", or the candidate
\* does not parse, or a field fails validation.
AnalysisFails(ans) ==
    \/ ans.kind # "text"
    \/ NoBraces(ans.text)
    \/ ~JsonParses(RegexMatch(TrimText(ans.text)))
    \/ BadFields(RegexMatch(TrimText(ans.text))[1].o)

----------------------------------------------------------------------------
(* C1. Every request with valid input is answered either 200 with a body   *)
(* that satisfies the AnalysisResult invariants, or 500 from the degraded  *)
(* result. The code violates it: features whose elements are all blank     *)
(* pass the validation and are filtered to an empty list (index.js:132,    *)
(* 143), answered 200; and a valid reply whose first feature starts with   *)
(* "Error:" is answered 500 (index.js:180).                                *)
C1_ValidatedOrDegraded ==
    \A p \in Procs :
        Answered(p) /\ ValidInput(req[p]) =>
            \/ /\ resp[p].status = 200
               /\ resp[p].kind = "analysis"
               /\ ResultInvariants(resp[p].body)
            \/ /\ resp[p] = DegradedResp
               /\ analysis[p] = Degraded

\* C1, its first half alone: no 200 carries a body that breaks an invariant.
C1_No200BreaksInvariants ==
    \A p \in Procs :
        Answered(p) /\ resp[p].status = 200 => ResultInvariants(resp[p].body)

(* C2. A reply that is a JSON object with valid field values is answered   *)
(* 200 with those fields, trimmed; a 500 comes only from the degraded      *)
(* result. The code violates it when the first feature starts with         *)
(* "Error:" (index.js:180).                                                *)
C2_ValidReplyAnswered200 ==
    \A p \in Procs :
        Answered(p) /\ ValidInput(req[p]) =>
            /\ IsObject(answer[p]) /\ ValidFields(ObjectOf(answer[p])) =>
                  resp[p] = AnalysisResp(TrimmedFields(ObjectOf(answer[p])))
            /\ resp[p].status = 500 => analysis[p] = Degraded

(* C3. A request whose content is shorter than 50 characters (or absent)   *)
(* is answered 400 whatever title and content are. The code violates it    *)
(* for a title that is neither a string nor nullish: title?.trim() throws  *)
(* and the request is answered 500 (index.js:165, 203-208).                *)
C3_ShortContentAnswered400 ==
    \A p \in Procs :
        /\ Answered(p)
        /\ \/ Nullish(req[p].content)
           \/ req[p].content.t = "str" /\ Len(req[p].content.s) < MinContentLength
        => resp[p].status = 400

(* C4. With valid input, every failure of the analysis gives exactly the   *)
(* degraded result and the fixed 500 body, and no 500 of the analysis      *)
(* carries text of the model's reply. The code violates the last part: a   *)
(* valid reply whose first feature starts with "Error:" is answered 500    *)
(* with the reply's explanation as the error (index.js:180-183).           *)
C4_FailureAnsweredGeneric ==
    \A p \in Procs :
        Answered(p) /\ ValidInput(req[p]) =>
            /\ AnalysisFails(answer[p]) =>
                  analysis[p] = Degraded /\ resp[p] = DegradedResp
            /\ resp[p].status = 500 /\ IsObject(answer[p])
               /\ ObjectOf(answer[p]).explanation.t = "str"
               /\ Trim(ObjectOf(answer[p]).explanation.s) # <<>>
               => ~Contains(resp[p].error, Trim(ObjectOf(answer[p]).explanation.s))

\* C4, its first part alone, which the code satisfies: a failure gives the
\* degraded result and the fixed body.
C4_FailureDegrades ==
    \A p \in Procs :
        Answered(p) /\ ValidInput(req[p]) /\ AnalysisFails(answer[p]) =>
            analysis[p] = Degraded /\ resp[p] = DegradedResp

(* C5. Once the analysis has passed the sentinel test and the save has     *)
(* been attempted, the response is 200 with exactly the analysis as its    *)
(* body, whether the save succeeded or failed; and every 200 with an       *)
(* analysis comes after an attempted save.                                 *)
C5_SaveOutcomeNeverChangesResponse ==
    \A p \in Procs :
        /\ Answered(p) /\ saved[p] # "none" => resp[p] = AnalysisResp(analysis[p])
        /\ Answered(p) /\ resp[p].kind = "analysis" => saved[p] \in {"ok", "failed"}
        /\ pc[p] = "saving" => saved[p] = "none" /\ resp[p] = NoResp

\* C5's case: a request answered 200 with its analysis after its save failed.
C5_Witness ==
    \E p \in Procs :
        /\ Answered(p) /\ saved[p] = "failed"
        /\ resp[p].status = 200 /\ resp[p].body = analysis[p]
        /\ newsEntry[p] \notin store

(* C6. A DELETE whose store call resolves answers 404 and leaves the       *)
(* collection as it is when no document has the id, and answers 200 and    *)
(* removes exactly the document with the id when there is one (a store     *)
(* call that throws answers 500 and removes nothing); a removed id is in   *)
(* no later history and in the collection no more.                         *)
C6_DeleteStep ==
    \A id \in 1..(MaxRequests + 1), ok \in BOOLEAN :
        Delete(id, ok) =>
            IF ~ok THEN other'.status = 500 /\ store' = store
            ELSE IF \E r \in store : r.id = id
                 THEN /\ other' = SuccessResp(DeletedMsg)
                      /\ store' = {r \in store : r.id # id}
                      /\ Cardinality(store') = Cardinality(store) - 1
                 ELSE /\ other' = ErrorResp(404, NotFoundMsg, "")
                      /\ store' = store

C6_DeletedStaysAway ==
    /\ \A r \in store : r.id \notin deleted
    /\ other.kind = "list" =>
          \A i \in 1..Len(other.list) : other.list[i].id \notin deleted

C7_HistoryStep ==
    \A ok \in BOOLEAN, tieAsc \in BOOLEAN :
        \* (the first three conjuncts are implied by History)
        pc' = pc /\ clock' = clock /\ other'.kind = "list" /\ History(ok, tieAsc) =>
            LET l == other'.list
                listed == {l[i] : i \in 1..Len(l)}
            IN  /\ other'.status = 200 /\ other'.kind = "list"
                /\ ~ok => l = <<>>
                /\ ok =>
                     /\ Len(l) <= HistoryLimit
                     /\ Len(l) = IF Cardinality(store) <= HistoryLimit
                                 THEN Cardinality(store) ELSE HistoryLimit
                     /\ listed \subseteq store
                     /\ Cardinality(listed) = Len(l)
                     /\ \A i \in 1..(Len(l) - 1) :
                           l[i].createdAt >= l[i + 1].createdAt
                     /\ \A r \in store \ listed, x \in listed :
                           r.createdAt <= x.createdAt

\* C7: every GET /api/history step is as C7_HistoryStep says.
C7_History == [][C7_HistoryStep]_vars

\* C7's case: the history of a collection of more than 10 documents.
C7_Witness ==
    /\ Cardinality(store) > HistoryLimit
    /\ other.kind = "list"
    /\ Len(other.list) = HistoryLimit
    /\ {other.list[i] : i \in 1..Len(other.list)} \subseteq store
    /\ \E r \in store : \A i \in 1..Len(other.list) : other.list[i] # r
    /\ \E i \in 1..(Len(other.list) - 1) :
          other.list[i].id < other.list[i + 1].id

(* C8. A reply that parses and has isFake not a boolean, or confidence not *)
(* a number or below 0 or above 100, or features not a list or an empty    *)
(* list, or explanation not a string or blank, and a text without          *)
(* "{"..."}", each end in analyzeText returning the degraded result: no    *)
(* error escapes analyzeText (the response carries no details).            *)
C8_InvalidRepliesRejected ==
    \A p \in Procs :
        /\ pc[p] \in {"saving", "done"} /\ modelCalled[p]
        /\ answer[p].kind = "text"
        /\ \/ NoBraces(answer[p].text)
           \/ /\ IsObject(answer[p])
              /\ BadFields(ObjectOf(answer[p]))
        => /\ analysis[p] = Degraded
           /\ resp[p] = DegradedResp

\* C8's case: a reply with confidence 101 was rejected.
C8_Witness ==
    \E p \in Procs :
        /\ Answered(p) /\ IsObject(answer[p])
        /\ ObjectOf(answer[p]).confidence = JNum(1010)
        /\ ObjectOf(answer[p]).isFake.t = "bool"
        /\ analysis[p] = Degraded

(* C9. The save is attempted only for a result that is not the degraded    *)
(* one: a request answered 400, or 500 from the degraded result, has       *)
(* attempted no save and its answering step leaves the collection as it    *)
(* is; a request answered 400 has not called the model.                    *)
C9_Step ==
    \A p \in Procs :
        /\ pc[p] # "done" /\ pc'[p] = "done" /\ resp'[p].status = 400 =>
              /\ ~modelCalled'[p]
              /\ saved'[p] = "none"
              /\ store' = store
        /\ pc[p] # "done" /\ pc'[p] = "done" /\ resp'[p].status = 500
           /\ analysis'[p] = Degraded =>
              /\ saved'[p] = "none"
              /\ store' = store
        /\ pc'[p] = "saving" =>
              /\ analysis'[p] # Degraded
              /\ modelCalled'[p]
        /\ saved'[p] # "none" => analysis'[p] # Degraded
        /\ store' # store /\ store \subseteq store' =>
              \E q \in Procs : pc[q] = "saving" /\ analysis[q] # Degraded

\* C9: every step is as C9_Step says.
C9_SaveOnlyAfterGenuine == [][C9_Step]_vars

\* C9's case: one request answered 400 and one answered 500 from the
\* degraded result, beside a collection that holds a document.
C9_Witness ==
    \E p, q \in Procs :
        /\ Answered(p) /\ resp[p].status = 400 /\ ~modelCalled[p]
        /\ Answered(q) /\ resp[q] = DegradedResp /\ analysis[q] = Degraded
        /\ saved[p] = "none" /\ saved[q] = "none"

\* What the handler answers as a function of the request's own input and
\* its own reply: the steps of the handler one after the other, with
\* nothing of another request in them.
OwnResponse(r, ans) ==
    LET check == InputCheck(r.title, r.content)
        a     == AnalyzeText(ans)
    IN  CASE check = "required" -> ErrorResp(400, RequiredMsg, "")
          [] check = "tooShort" -> ErrorResp(400, TooShortMsg, "")
          [] check = "throwTitle" ->
                ErrorResp(500, ServerErrorMsg, "title?.trim is not a function")
          [] check = "throwContent" ->
                ErrorResp(500, ServerErrorMsg, "content?.trim is not a function")
          [] check = "ok" ->
                IF a.threw THEN ErrorResp(500, ServerErrorMsg, a.error)
                ELSE IF IsSentinel(a.value) THEN SentinelResp(a.value)
                ELSE AnalysisResp(a.value)

(* C10. With two requests interleaved at their awaits, each is answered    *)
(* from its own input and its own reply; and when both carry the same      *)
(* article, both analyses are genuine and both saves succeed, there are    *)
(* two documents with different ids, one per request, both in the          *)
(* collection unless deleted since.                                        *)
C10_ConcurrentRequestsIndependent ==
    \A p \in Procs :
        /\ Answered(p) => resp[p] = OwnResponse(req[p], answer[p])
        /\ \A q \in Procs \ {p} :
              /\ Answered(p) /\ Answered(q)
              /\ saved[p] = "ok" /\ saved[q] = "ok"
              /\ req[p] = req[q]
              => /\ newsEntry[p].id # newsEntry[q].id
                 /\ \A x \in {p, q} :
                       \/ newsEntry[x] \in store
                       \/ newsEntry[x].id \in deleted
                 /\ deleted = {} =>
                       Cardinality({r \in store :
                          r.id \in {newsEntry[p].id, newsEntry[q].id}}) = 2

\* C10's case: two requests with the same article and the same reply,
\* both saved, and two documents in the collection.
C10_Witness ==
    /\ Answered(1) /\ Answered(2)
    /\ saved[1] = "ok" /\ saved[2] = "ok"
    /\ req[1] = req[2] /\ answer[1] = answer[2]
    /\ resp[1] = resp[2] /\ resp[1].status = 200
    /\ Cardinality(store) = 2

====
